---- MODULE Spec2Model ----
(***************************************************************************)
(* The SambaNova provider adapter of goose                                 *)
(* (crates/goose/src/providers/sambanova.rs): construction from the        *)
(* configuration store (from_env, Default), the static metadata, and the   *)
(* asynchronous complete call, which suspends once, at the network round   *)
(* trip of post.                                                           *)
(*                                                                         *)
(* Strings the code inspects character by character (the custom-header     *)
(* blob, the raw timeout value) are tuples of one-character strings; the   *)
(* other strings are opaque.                                               *)
(***************************************************************************)
EXTENDS Integers, Sequences, FiniteSets, TLC

VARIABLES
    config,        \* the configuration store read by from_env (environment)
    construction,  \* what the one construction of the adapter returned
    provider,      \* the SambanovaProvider, once built
    calls,         \* the complete calls on the adapter, by call id
    swallowed      \* the errors the code met and did not return

vars == <<config, construction, provider, calls, swallowed>>

---------------------------------------------------------------------------
(* Bounds of the model *)

\* The number of complete calls made on the adapter.
MaxCalls == 2
\* The longest custom-header blob enumerated character by character.
MaxLen == 4

---------------------------------------------------------------------------
(* Option and Result values *)

None == [some |-> FALSE]
Some(v) == [some |-> TRUE, value |-> v]
Ok(v) == [ok |-> TRUE, value |-> v]
Err(e) == [ok |-> FALSE, error |-> e]

ProviderError(kind, detail) == [kind |-> kind, detail |-> detail]

---------------------------------------------------------------------------
(* Constants of the provider *)

SAMBANOVA_DEFAULT_MODEL == "Meta-Llama-3.1-405B-Instruct"
SAMBANOVA_KNOWN_MODELS == <<"Meta-Llama-3.1-405B-Instruct", "Meta-Llama-3.3-70B-Instruct">>
SAMBANOVA_DOC_URL == "https://api.sambanova.ai"

ConfigKey(name, required, secret, default) ==
    [name |-> name, required |-> required, secret |-> secret, default |-> default]

metadata ==
    [ name |-> "sambanova",
      display_name |-> "SambaNova",
      default_model |-> SAMBANOVA_DEFAULT_MODEL,
      known_models |-> SAMBANOVA_KNOWN_MODELS,
      model_doc_link |-> SAMBANOVA_DOC_URL,
      config_keys |-> <<
        ConfigKey("SAMBANOVA_API_KEY", TRUE, TRUE, None),
        ConfigKey("SAMBANOVA_HOST", TRUE, FALSE, Some("https://api.sambanova.ai")),
        ConfigKey("SAMBANOVA_BASE_PATH", TRUE, FALSE, Some("v1")),
        ConfigKey("SAMBANOVA_CUSTOM_HEADERS", FALSE, TRUE, None),
        ConfigKey("SAMBANOVA_TIMEOUT", FALSE, FALSE, Some(<<"6", "0", "0">>)) >> ]

ModelConfig_new(model_name) == [model_name |-> model_name]

---------------------------------------------------------------------------
(* Text helpers: what str::trim, str::split and str::splitn do *)

Whitespace == {" "}

RECURSIVE trim_start(_)
trim_start(s) ==
    IF s = <<>> THEN s
    ELSE IF Head(s) \in Whitespace THEN trim_start(Tail(s)) ELSE s

RECURSIVE trim_end(_)
trim_end(s) ==
    IF s = <<>> THEN s
    ELSE IF s[Len(s)] \in Whitespace THEN trim_end(SubSeq(s, 1, Len(s) - 1)) ELSE s

trim(s) == trim_end(trim_start(s))

\* The index of the first ch in s, 0 when there is none.
find(s, ch) ==
    IF \E i \in 1..Len(s) : s[i] = ch
    THEN CHOOSE i \in 1..Len(s) : s[i] = ch /\ \A j \in 1..(i - 1) : s[j] # ch
    ELSE 0

\* s.split(ch): the pieces between the separators, one more than separators.
RECURSIVE split(_, _)
split(s, ch) ==
    LET i == find(s, ch) IN
    IF i = 0 THEN <<s>>
    ELSE <<SubSeq(s, 1, i - 1)>> \o split(SubSeq(s, i + 1, Len(s)), ch)

\* Variant of splitn2 that cuts at every separator, as split does, and keeps
\* the first two pieces.
splitn2_every(s, ch) ==
    LET parts == split(s, ch) IN
    IF Len(parts) < 2 THEN <<s>> ELSE <<parts[1], parts[2]>>

\* s.splitn(2, ch): at most two pieces, cut at the first separator.
splitn2(s, ch) ==
    LET i == find(s, ch) IN
    IF i = 0 THEN <<s>>
    ELSE <<SubSeq(s, 1, i - 1), SubSeq(s, i + 1, Len(s))>>

\* HashMap::insert: a later value for a key replaces the earlier one.
insert(m, k, v) == [x \in DOMAIN m \cup {k} |-> IF x = k THEN v ELSE m[x]]

EmptyMap == [x \in {} |-> <<>>]

\* The closure of filter_map: Some((key, value)), or None for a piece
\* without '='.
header_pair(header) ==
    LET parts == splitn2(header, "=") IN
    IF Len(parts) < 2 THEN None
    ELSE Some(<<trim(parts[1]), trim(parts[2])>>)

RECURSIVE collect(_, _)
collect(pieces, m) ==
    IF pieces = <<>> THEN m
    ELSE LET p == header_pair(Head(pieces)) IN
         collect(Tail(pieces), IF p.some THEN insert(m, p.value[1], p.value[2]) ELSE m)

parse_custom_headers(s) == collect(split(s, ","), EmptyMap)

\* The pieces of the blob that parse_custom_headers drops.
dropped_pairs(s) ==
    LET pieces == split(s, ",") IN
    {i \in 1..Len(pieces) : ~header_pair(pieces[i]).some}

---------------------------------------------------------------------------
(* The configuration store *)

Digits == <<"0", "1", "2", "3", "4", "5", "6", "7", "8", "9">>

DigitValue(ch) == (CHOOSE i \in 1..Len(Digits) : Digits[i] = ch) - 1

IsDigit(ch) == \E i \in 1..Len(Digits) : Digits[i] = ch

RECURSIVE digits_value(_, _)
digits_value(s, acc) ==
    IF s = <<>> THEN acc ELSE digits_value(Tail(s), acc * 10 + DigitValue(Head(s)))

\* Reading a stored value as a u64: an error unless it is a decimal number.
parse_u64(raw) ==
    IF raw # <<>> /\ \A i \in 1..Len(raw) : IsDigit(raw[i])
    THEN Ok(digits_value(raw, 0))
    ELSE Err("DeserializeError")

\* Config::get_secret / get_param for a String: the stored value, or NotFound.
get_string(key) ==
    IF config[key].some THEN Ok(config[key].value) ELSE Err("NotFound")

\* Config::get_param for a u64.
get_u64(key) ==
    IF config[key].some THEN parse_u64(config[key].value) ELSE Err("NotFound")

unwrap_or(r, default) == IF r.ok THEN r.value ELSE default

---------------------------------------------------------------------------
(* Construction *)

\* An error met and not returned: where it arose and what it was.
Swallowed(site, error) == [site |-> site, error |-> error]

Client_build(timeout_secs, client_builds) ==
    IF client_builds THEN Ok([timeout |-> timeout_secs]) ELSE Err("ClientBuildError")

\* The adapter from_env builds from the values it read.
provider_of(api_key, host, base_path, custom_headers, timeout_secs, model) ==
    [ client |-> [timeout |-> timeout_secs],
      host |-> host,
      base_path |-> base_path,
      api_key |-> api_key,
      model |-> model,
      custom_headers |-> custom_headers ]

\* Variant of from_env that does not stop at a missing API key and builds the
\* adapter with an empty one.
from_env_without_key_check(model, client_builds) ==
    LET blob == get_string("SAMBANOVA_CUSTOM_HEADERS") IN
    IF ~client_builds THEN Err("ClientBuildError")
    ELSE Ok(provider_of(
            unwrap_or(get_string("SAMBANOVA_API_KEY"), ""),
            unwrap_or(get_string("SAMBANOVA_HOST"), "https://api.sambanova.ai"),
            unwrap_or(get_string("SAMBANOVA_BASE_PATH"), "v1"),
            IF blob.ok THEN Some(parse_custom_headers(blob.value)) ELSE None,
            unwrap_or(get_u64("SAMBANOVA_TIMEOUT"), 600),
            model))

\* Variant of from_env whose default timeout is 60 seconds.
from_env_short_timeout(model, client_builds) ==
    LET api_key == get_string("SAMBANOVA_API_KEY")
        blob == get_string("SAMBANOVA_CUSTOM_HEADERS")
    IN
    IF ~api_key.ok THEN Err("MissingCredential")
    ELSE IF ~client_builds THEN Err("ClientBuildError")
    ELSE Ok(provider_of(
            api_key.value,
            unwrap_or(get_string("SAMBANOVA_HOST"), "https://api.sambanova.ai"),
            unwrap_or(get_string("SAMBANOVA_BASE_PATH"), "v1"),
            IF blob.ok THEN Some(parse_custom_headers(blob.value)) ELSE None,
            unwrap_or(get_u64("SAMBANOVA_TIMEOUT"), 60),
            model))

\* SambanovaProvider::from_env: Ok(the adapter) or Err(the error). The error
\* of the missing API key is the one the construction contract names.
\* client_builds: whether reqwest's ClientBuilder::build succeeds.
from_env(model, client_builds) ==
    LET api_key == get_string("SAMBANOVA_API_KEY") IN
    IF ~api_key.ok THEN Err("MissingCredential")
    ELSE
      LET host == unwrap_or(get_string("SAMBANOVA_HOST"), "https://api.sambanova.ai")
          base_path == unwrap_or(get_string("SAMBANOVA_BASE_PATH"), "v1")
          blob == get_string("SAMBANOVA_CUSTOM_HEADERS")
          custom_headers ==
              IF blob.ok THEN Some(parse_custom_headers(blob.value)) ELSE None
          timeout_secs == unwrap_or(get_u64("SAMBANOVA_TIMEOUT"), 600)
          client == Client_build(timeout_secs, client_builds)
      IN  IF ~client.ok THEN Err(client.error)
          ELSE Ok(provider_of(api_key.value, host, base_path, custom_headers,
                              client.value.timeout, model))

\* The errors from_env meets and replaces by a default instead of returning.
from_env_swallowed ==
    IF ~get_string("SAMBANOVA_API_KEY").ok THEN {}
    ELSE
      LET blob == get_string("SAMBANOVA_CUSTOM_HEADERS") IN
      {Swallowed(k, get_string(k).error) :
          k \in {k \in {"SAMBANOVA_HOST", "SAMBANOVA_BASE_PATH", "SAMBANOVA_CUSTOM_HEADERS"} :
                    ~get_string(k).ok}}
      \cup (IF get_u64("SAMBANOVA_TIMEOUT").ok THEN {}
            ELSE {Swallowed("SAMBANOVA_TIMEOUT", get_u64("SAMBANOVA_TIMEOUT").error)})
      \cup (IF blob.ok /\ dropped_pairs(blob.value) # {}
            THEN {Swallowed("parse_custom_headers", "PairWithoutEquals")}
            ELSE {})

NotCalled == [called |-> FALSE]

\* A caller constructs the adapter with from_env(model).
FromEnv ==
    /\ ~construction.called
    /\ \E model_name \in {SAMBANOVA_KNOWN_MODELS[i] : i \in 1..Len(SAMBANOVA_KNOWN_MODELS)},
          client_builds \in BOOLEAN :
         LET r == from_env(ModelConfig_new(model_name), client_builds) IN
         /\ construction' = [ called |-> TRUE, via |-> "from_env",
                              model_name |-> model_name,
                              client_builds |-> client_builds,
                              returned |-> IF r.ok THEN "Ok" ELSE r.error ]
         /\ provider' = IF r.ok THEN Some(r.value) ELSE None
    /\ swallowed' = swallowed \cup from_env_swallowed
    /\ UNCHANGED <<config, calls>>

\* A caller constructs the adapter with SambanovaProvider::default(): from_env
\* with the metadata's default model, and a panic when that fails.
Default ==
    /\ ~construction.called
    /\ \E client_builds \in BOOLEAN :
         LET r == from_env(ModelConfig_new(metadata.default_model), client_builds) IN
         /\ construction' = [ called |-> TRUE, via |-> "default",
                              model_name |-> metadata.default_model,
                              client_builds |-> client_builds,
                              returned |-> IF r.ok THEN "Ok" ELSE "panic" ]
         /\ provider' = IF r.ok THEN Some(r.value) ELSE None
    /\ swallowed' = swallowed \cup from_env_swallowed
    /\ UNCHANGED <<config, calls>>

get_model_config == provider.value.model

---------------------------------------------------------------------------
(* The endpoint URL: what url::Url::parse and Url::join do on the values    *)
(* the model configures                                                    *)

MalformedHost == "not a url"
MalformedBasePath == "//[v1"

\* Url::parse: the origin and the path segments, or an error.
Url_parse(s) ==
    CASE s = "https://api.sambanova.ai" ->
            Ok([origin |-> "https://api.sambanova.ai", path |-> <<>>])
      [] s = "https://proxy.example/llm/" ->
            Ok([origin |-> "https://proxy.example", path |-> <<"llm", "">>])
      [] OTHER -> Err("relative URL without a base")

\* Url::join: the reference replaces the base's last path segment.
Url_join(base, reference) ==
    IF reference = MalformedBasePath THEN Err("invalid IPv6 address")
    ELSE Ok([ origin |-> base.origin,
              path |-> (IF base.path = <<>> THEN <<>>
                        ELSE SubSeq(base.path, 1, Len(base.path) - 1))
                       \o <<reference>> ])

---------------------------------------------------------------------------
(* The shared OpenAI-compatible encoding and decoding used by complete *)

\* create_request: the payload for (model, system, messages, tools), or an
\* error for content that cannot be encoded.
create_request(model, system, messages, tools) ==
    IF \E i \in 1..Len(messages) : messages[i] = "unencodable"
    THEN Err(ProviderError("ExecutionError", "create_request"))
    ELSE Ok([ model |-> model.model_name, system |-> system,
              messages |-> messages, tools |-> tools ])

\* handle_response_openai_compat: the body of a 2xx response with a JSON
\* body, RequestFailed otherwise.
handle_response_openai_compat(response) ==
    IF response.status < 200 \/ response.status > 299
    THEN Err(ProviderError("RequestFailed", "status"))
    ELSE IF ~response.body.json
    THEN Err(ProviderError("RequestFailed", "body"))
    ELSE Ok(response.body)

\* The ProviderError a reqwest::Error of send() is converted to by '?': a
\* network failure surfaces as RequestFailed.
From_reqwest_Error == ProviderError("RequestFailed", "send")

response_to_message(body) ==
    IF body.message = "undecodable"
    THEN Err(ProviderError("ExecutionError", "response_to_message"))
    ELSE Ok([role |-> "assistant", content |-> body.message])

Usage_new(tokens) ==
    [input_tokens |-> tokens[1], output_tokens |-> tokens[2], total_tokens |-> tokens[3]]

Usage_default == Usage_new(<<0, 0, 0>>)

get_usage(body) ==
    CASE body.usage.state = "absent" -> Err(ProviderError("UsageError", "no usage"))
      [] body.usage.state = "malformed" -> Err(ProviderError("ExecutionError", "get_usage"))
      [] OTHER -> Ok(Usage_new(body.usage.tokens))

get_model(body) == body.model

ProviderUsage_new(model, usage) == [model |-> model, usage |-> usage]

---------------------------------------------------------------------------
(* The complete call *)

\* Variant of post_request that sends to the host as configured, unparsed.
post_request_unparsed(p, payload) ==
    Ok([ method |-> "POST",
         url |-> [origin |-> p.host, path |-> <<p.base_path>>],
         authorization |-> <<"Bearer", p.api_key>>,
         custom_headers |-> p.custom_headers,
         timeout |-> p.client.timeout,
         json |-> payload ])

\* SambanovaProvider::post up to the request it sends: the endpoint URL and
\* the headers, or RequestFailed for a host or base path that is no URL.
post_request(p, payload) ==
    LET base_url == Url_parse(p.host) IN
    IF ~base_url.ok
    THEN Err(ProviderError("RequestFailed", "Invalid base URL"))
    ELSE
      LET url == Url_join(base_url.value, p.base_path) IN
      IF ~url.ok
      THEN Err(ProviderError("RequestFailed", "Failed to construct endpoint URL"))
      ELSE Ok([ method |-> "POST",
                url |-> url.value,
                authorization |-> <<"Bearer", p.api_key>>,
                custom_headers |-> p.custom_headers,
                timeout |-> p.client.timeout,
                json |-> payload ])

\* SambanovaProvider::post from the answer of send().await on: a transport
\* error is returned, a response is handed to handle_response_openai_compat.
post_response(response) ==
    IF response.kind = "transport_error"
    THEN Err(From_reqwest_Error)
    ELSE handle_response_openai_compat(response)

\* complete up to its suspension: the payload, then post's request.
complete_begin(p, input) ==
    LET payload == create_request(p.model, input.system, input.messages, input.tools) IN
    IF ~payload.ok
    THEN [suspended |-> FALSE, result |-> Err(payload.error)]
    ELSE
      LET request == post_request(p, payload.value) IN
      IF ~request.ok
      THEN [suspended |-> FALSE, result |-> Err(request.error)]
      ELSE [suspended |-> TRUE, request |-> request.value]

\* Variant of usage_match without the soft path: a missing usage fails the call.
usage_match_strict(got) ==
    IF got.ok THEN Ok(got.value) ELSE Err(got.error)

\* Variant of usage_match that replaces every usage error by the default.
usage_match_lenient(got) ==
    IF got.ok THEN Ok(got.value) ELSE Ok(Usage_default)

\* The match on get_usage's result in complete: the usage, the default usage
\* for a UsageError, or the error to return.
usage_match(got) ==
    IF got.ok THEN Ok(got.value)
    ELSE IF got.error.kind = "UsageError" THEN Ok(Usage_default)
    ELSE Err(got.error)

\* complete from its resumption on: the response is decoded into the message,
\* the usage (zero when the vendor sent none) and the model, and traced.
complete_finish(p, payload, response) ==
    LET body == post_response(response) IN
    IF ~body.ok
    THEN [result |-> Err(body.error), swallowed |-> {}, trace |-> None]
    ELSE
      LET message == response_to_message(body.value) IN
      IF ~message.ok
      THEN [result |-> Err(message.error), swallowed |-> {}, trace |-> None]
      ELSE
        LET got == get_usage(body.value)
            matched == usage_match(got)
        IN
        IF ~matched.ok
        THEN [result |-> Err(matched.error), swallowed |-> {}, trace |-> None]
        ELSE
          LET usage == matched.value
              model == get_model(body.value)
          IN  [ result |-> Ok(<<message.value, ProviderUsage_new(model, usage)>>),
                swallowed |-> IF got.ok THEN {}
                              ELSE {Swallowed("get_usage", got.error.kind)},
                trace |-> Some([ model |-> p.model, payload |-> payload,
                                 response |-> body.value, usage |-> usage ]) ]

CallIds == 1..MaxCalls

IdleCall ==
    [ pc |-> "idle", input |-> None, request |-> None, posts |-> 0,
      response |-> None, result |-> None, trace |-> None ]

\* What callers pass to complete: (system, messages, tools).
Inputs ==
    { [system |-> "You are a helpful assistant.",
       messages |-> <<"Say hello in Japanese">>, tools |-> <<>>],
      [system |-> "You are a helpful weather assistant.",
       messages |-> <<"What's the weather like in Tokyo?">>, tools |-> <<"get_weather">>],
      [system |-> "You are a helpful assistant.",
       messages |-> <<"unencodable">>, tools |-> <<>>] }

UsageFields ==
    { [state |-> "absent", tokens |-> <<>>],
      [state |-> "malformed", tokens |-> <<>>],
      [state |-> "present", tokens |-> <<3, 4, 7>>] }

Bodies ==
    { [json |-> FALSE, message |-> "", usage |-> [state |-> "absent", tokens |-> <<>>],
       model |-> ""] }
    \cup { [json |-> TRUE, message |-> m, usage |-> u,
            model |-> "Meta-Llama-3.1-405B-Instruct-resolved"] :
           m \in {"Konnichiwa", "undecodable"}, u \in UsageFields }

NoBody == [json |-> FALSE, message |-> "", usage |-> [state |-> "absent", tokens |-> <<>>],
           model |-> ""]

\* What the transport can answer to a request.
Responses ==
    { [kind |-> "transport_error", status |-> 0, body |-> NoBody],
      [kind |-> "http", status |-> 500, body |-> NoBody] }
    \cup { [kind |-> "http", status |-> 200, body |-> b] : b \in Bodies }

\* The state of call c after complete ran to its suspension or early return.
call_begun(input, b) ==
    IF b.suspended
    THEN [ IdleCall EXCEPT !.pc = "awaiting", !.input = Some(input),
                           !.request = Some(b.request), !.posts = 1 ]
    ELSE [ IdleCall EXCEPT !.pc = "done", !.input = Some(input),
                           !.result = Some(b.result) ]

\* Variant of CompleteSend for an adapter that holds a lock over the round
\* trip: a call starts only when no other call is in flight.
CompleteSend_locked(c) ==
    /\ provider.some
    /\ calls[c].pc = "idle"
    /\ c > 1 => calls[c - 1].pc # "idle"
    /\ \A d \in CallIds : calls[d].pc # "awaiting"
    /\ \E input \in Inputs :
         calls' = [calls EXCEPT ![c] =
                      call_begun(input, complete_begin(provider.value, input))]
    /\ UNCHANGED <<config, construction, provider, swallowed>>

\* A caller invokes complete(c): the call runs to its suspension at
\* send().await, or returns the error of building the payload or the URL.
\* Call ids number the calls in the order they are made.
CompleteSend(c) ==
    /\ provider.some
    /\ calls[c].pc = "idle"
    /\ c > 1 => calls[c - 1].pc # "idle"
    /\ \E input \in Inputs :
         calls' = [calls EXCEPT ![c] =
                      call_begun(input, complete_begin(provider.value, input))]
    /\ UNCHANGED <<config, construction, provider, swallowed>>

\* The state of call c after complete resumed with the response and returned.
call_finished(call, response, f) ==
    [ call EXCEPT !.pc = "done", !.response = Some(response),
                  !.result = Some(f.result), !.trace = f.trace ]

\* Variant of CompleteReceive that sends the request once more after a
\* transport error or a non-2xx status.
CompleteReceive_retrying(c) ==
    /\ provider.some
    /\ calls[c].pc = "awaiting"
    /\ \E response \in Responses :
         LET f == complete_finish(provider.value, calls[c].request.value.json, response)
             failed == response.kind = "transport_error" \/ response.status # 200
         IN
         /\ calls' = [calls EXCEPT ![c] =
                IF failed /\ calls[c].posts < 2
                THEN [@ EXCEPT !.posts = @ + 1]
                ELSE call_finished(@, response, f)]
         /\ swallowed' = swallowed \cup f.swallowed
    /\ UNCHANGED <<config, construction, provider>>

\* Variant of CompleteReceive that keeps the model the vendor echoed as the
\* adapter's model for the next calls.
CompleteReceive_remembering(c) ==
    /\ provider.some
    /\ calls[c].pc = "awaiting"
    /\ \E response \in Responses :
         LET f == complete_finish(provider.value, calls[c].request.value.json, response) IN
         /\ calls' = [calls EXCEPT ![c] = call_finished(@, response, f)]
         /\ swallowed' = swallowed \cup f.swallowed
         /\ provider' = IF f.result.ok
                        THEN Some([provider.value EXCEPT
                                     !.model = ModelConfig_new(f.result.value[2].model)])
                        ELSE provider
    /\ UNCHANGED <<config, construction>>

\* Variant of CompleteReceive that drops the API key after a failed call.
CompleteReceive_invalidating(c) ==
    /\ provider.some
    /\ calls[c].pc = "awaiting"
    /\ \E response \in Responses :
         LET f == complete_finish(provider.value, calls[c].request.value.json, response) IN
         /\ calls' = [calls EXCEPT ![c] = call_finished(@, response, f)]
         /\ swallowed' = swallowed \cup f.swallowed
         /\ provider' = IF f.result.ok THEN provider
                        ELSE Some([provider.value EXCEPT !.api_key = ""])
    /\ UNCHANGED <<config, construction>>

\* The round trip of call c ends: complete resumes with the transport's
\* answer and returns.
CompleteReceive(c) ==
    /\ provider.some
    /\ calls[c].pc = "awaiting"
    /\ \E response \in Responses :
         LET f == complete_finish(provider.value, calls[c].request.value.json, response) IN
         /\ calls' = [calls EXCEPT ![c] = call_finished(@, response, f)]
         /\ swallowed' = swallowed \cup f.swallowed
    /\ UNCHANGED <<config, construction, provider>>

---------------------------------------------------------------------------
(* Specifications *)

ConfigKeys ==
    { "SAMBANOVA_API_KEY", "SAMBANOVA_HOST", "SAMBANOVA_BASE_PATH",
      "SAMBANOVA_CUSTOM_HEADERS", "SAMBANOVA_TIMEOUT" }

TwoPairs == <<"a", "=", "1", ",", "b", "=", "2">>
PairsWithBad == <<"a", "=", "1", ",", "b", "a", "d", ",", "c", "=", "3">>

\* The values the store may hold for each key; None: the key is absent.
ConfigValues(key) ==
    CASE key = "SAMBANOVA_API_KEY" -> {None, Some("sk-test")}
      [] key = "SAMBANOVA_HOST" ->
            {None, Some("https://proxy.example/llm/"), Some(MalformedHost)}
      [] key = "SAMBANOVA_BASE_PATH" -> {None, Some("v2"), Some(MalformedBasePath)}
      [] key = "SAMBANOVA_CUSTOM_HEADERS" -> {None, Some(PairsWithBad)}
      [] key = "SAMBANOVA_TIMEOUT" -> {None, Some(<<"3", "0">>), Some(<<"a", "b", "c">>)}

Configs ==
    { [ SAMBANOVA_API_KEY |-> api_key, SAMBANOVA_HOST |-> host,
        SAMBANOVA_BASE_PATH |-> base_path, SAMBANOVA_CUSTOM_HEADERS |-> custom_headers,
        SAMBANOVA_TIMEOUT |-> timeout ] :
      api_key \in ConfigValues("SAMBANOVA_API_KEY"),
      host \in ConfigValues("SAMBANOVA_HOST"),
      base_path \in ConfigValues("SAMBANOVA_BASE_PATH"),
      custom_headers \in ConfigValues("SAMBANOVA_CUSTOM_HEADERS"),
      timeout \in ConfigValues("SAMBANOVA_TIMEOUT") }

Init ==
    /\ config \in Configs
    /\ construction = NotCalled
    /\ provider = None
    /\ calls = [c \in CallIds |-> IdleCall]
    /\ swallowed = {}

Next ==
    \/ FromEnv
    \/ Default
    \/ \E c \in CallIds : CompleteSend(c)
    \/ \E c \in CallIds : CompleteReceive(c)

\* Any number of callers share the adapter: calls overlap freely.
Spec == Init /\ [][Next]_vars

\* One caller makes its calls one after the other.
NextSequential ==
    \/ FromEnv
    \/ Default
    \/ \E c \in CallIds : (\A d \in CallIds : calls[d].pc # "awaiting") /\ CompleteSend(c)
    \/ \E c \in CallIds : CompleteReceive(c)

SpecSequential == Init /\ [][NextSequential]_vars

\* The custom-header blobs of up to MaxLen characters, and the two examples.
Alphabet == {"a", "b", "=", ",", " "}

Blobs == UNION {[1..n -> Alphabet] : n \in 0..MaxLen} \cup {TwoPairs, PairsWithBad}

InitHeaders ==
    /\ config \in { [k \in ConfigKeys |->
                        CASE k = "SAMBANOVA_API_KEY" -> Some("sk-test")
                          [] k = "SAMBANOVA_CUSTOM_HEADERS" -> Some(blob)
                          [] OTHER -> None] : blob \in Blobs }
    /\ construction = NotCalled
    /\ provider = None
    /\ calls = [c \in CallIds |-> IdleCall]
    /\ swallowed = {}

NextHeaders == FromEnv

\* Construction over every custom-header blob: parse_custom_headers applied.
SpecHeaders == InitHeaders /\ [][NextHeaders]_vars

---------------------------------------------------------------------------
(* Vocabulary of the properties, stated on the configuration, the inputs    *)
(* and the responses rather than through the operators above               *)

Done(c) == calls[c].pc = "done"

Answered(c) == Done(c) /\ calls[c].response.some

ResponseOf(c) == calls[c].response.value

ResultOf(c) == calls[c].result.value

\* The response is a 2xx response whose body is JSON.
Received(response) ==
    response.kind = "http" /\ response.status \in 200..299 /\ response.body.json

Encodable(input) == \A i \in 1..Len(input.messages) : input.messages[i] # "unencodable"

KeyPresent == config["SAMBANOVA_API_KEY"].some

MalformedUrlConfigured ==
    \/ config["SAMBANOVA_HOST"] = Some(MalformedHost)
    \/ config["SAMBANOVA_BASE_PATH"] = Some(MalformedBasePath)

ZeroUsage == [input_tokens |-> 0, output_tokens |-> 0, total_tokens |-> 0]

---------------------------------------------------------------------------
(* C1 *)

\* C1: in complete, once the response has been received and its message
\* decoded: a missing usage (UsageError) gives a successful call with a zero
\* Usage; any other usage error fails the call with that same error; and a
\* message that cannot be decoded fails the call whatever the usage is.
C1_UsageSoftFail ==
    \A c \in CallIds :
      (Answered(c) /\ Received(ResponseOf(c))) =>
        LET body == ResponseOf(c).body
            r == ResultOf(c)
        IN
        /\ (body.message # "undecodable" /\ body.usage.state = "absent") =>
              (r.ok /\ r.value[2].usage = ZeroUsage /\ r.value[1].content = body.message)
        /\ (body.message # "undecodable" /\ body.usage.state = "malformed") =>
              (~r.ok /\ r.error = ProviderError("ExecutionError", "get_usage"))
        /\ body.message = "undecodable" => ~r.ok

\* A call that succeeded with a zero Usage on a response without usage.
C1_Witness ==
    \E c \in CallIds :
      /\ Answered(c) /\ Received(ResponseOf(c))
      /\ ResponseOf(c).body.message # "undecodable"
      /\ ResponseOf(c).body.usage.state = "absent"
      /\ ResultOf(c).ok /\ ResultOf(c).value[2].usage = ZeroUsage

---------------------------------------------------------------------------
(* C2 *)

\* C2: every complete call issues at most one POST, exactly one once the
\* payload and the endpoint URL were built, and after a transport error or a
\* non-2xx status it ends with RequestFailed without sending again.
C2_SinglePost ==
    \A c \in CallIds :
      /\ calls[c].posts <= 1
      /\ calls[c].posts = 1 <=> calls[c].request.some
      /\ (calls[c].pc # "idle" /\ Encodable(calls[c].input.value)
            /\ ~MalformedUrlConfigured) => calls[c].posts = 1
      /\ (Answered(c) /\ (ResponseOf(c).kind = "transport_error"
                            \/ ResponseOf(c).status \notin 200..299)) =>
            /\ ~ResultOf(c).ok
            /\ ResultOf(c).error.kind = "RequestFailed"
            /\ calls[c].posts = 1

\* A call that ended with RequestFailed on HTTP 500 after its one POST.
C2_Witness ==
    \E c \in CallIds :
      /\ Answered(c) /\ ResponseOf(c).kind = "http" /\ ResponseOf(c).status = 500
      /\ ~ResultOf(c).ok /\ ResultOf(c).error.kind = "RequestFailed"
      /\ calls[c].posts = 1

---------------------------------------------------------------------------
(* C3 *)

\* C3: with SAMBANOVA_API_KEY absent, from_env fails with MissingCredential
\* and no adapter exists, whatever the other four keys hold; with the key
\* present and the HTTP client built, from_env returns an adapter holding
\* that key.
C3_MissingCredential ==
    construction.called =>
      /\ ~KeyPresent =>
            /\ ~provider.some
            /\ construction.via = "from_env" => construction.returned = "MissingCredential"
      /\ (KeyPresent /\ construction.client_builds) =>
            /\ provider.some
            /\ construction.returned = "Ok"
            /\ provider.value.api_key = config["SAMBANOVA_API_KEY"].value

\* from_env failed for the missing key although the other four keys are set.
C3_Witness ==
    /\ construction.called /\ construction.via = "from_env"
    /\ ~KeyPresent
    /\ \A k \in ConfigKeys \ {"SAMBANOVA_API_KEY"} : config[k].some
    /\ construction.returned = "MissingCredential" /\ ~provider.some

---------------------------------------------------------------------------
(* C4 *)

Min(S) == CHOOSE x \in S : \A y \in S : x <= y
Max(S) == CHOOSE x \in S : \A y \in S : x >= y

\* The positions where the comma-separated pieces of s start.
PieceStarts(s) == {1} \cup {i + 1 : i \in {j \in 1..Len(s) : s[j] = ","}}

\* The last position of the piece starting at a (a - 1 for an empty piece).
PieceEnd(s, a) ==
    CHOOSE e \in (a - 1)..Len(s) :
      /\ e = Len(s) \/ s[e + 1] = ","
      /\ \A j \in a..e : s[j] # ","

\* The pieces that contain an '='.
KeptStarts(s) == {a \in PieceStarts(s) : \E j \in a..PieceEnd(s, a) : s[j] = "="}

\* s[lo..hi] without the white space at its two ends.
Stripped(s, lo, hi) ==
    LET I == {i \in lo..hi : s[i] \notin Whitespace} IN
    IF I = {} THEN <<>> ELSE SubSeq(s, Min(I), Max(I))

\* The (key, value) of the kept piece starting at a: cut at its first '='.
PairAt(s, a) ==
    LET e == PieceEnd(s, a)
        j == Min({i \in a..e : s[i] = "="})
    IN  <<Stripped(s, a, j - 1), Stripped(s, j + 1, e)>>

HeaderBlob == config["SAMBANOVA_CUSTOM_HEADERS"].value

HeaderMap == provider.value.custom_headers.value

\* C4 as stated: the map holds exactly the (trimmed key, trimmed value)
\* pairs of the pieces that contain an '=', each cut at its first '='.
C4_ExactlyThePairs ==
    (provider.some /\ provider.value.custom_headers.some) =>
      {<<k, HeaderMap[k]>> : k \in DOMAIN HeaderMap}
        = {PairAt(HeaderBlob, a) : a \in KeptStarts(HeaderBlob)}

\* C4, amended: parse_custom_headers never fails, and the map's keys are
\* exactly the trimmed keys of the pieces that contain an '=' (each cut at its
\* first '='), every key mapped to the trimmed value of the last such piece
\* with that key.
C4_LastPairWins ==
    /\ (construction.called /\ KeyPresent /\ construction.client_builds) =>
          /\ provider.some
          /\ provider.value.custom_headers.some <=> config["SAMBANOVA_CUSTOM_HEADERS"].some
    /\ (provider.some /\ provider.value.custom_headers.some) =>
          LET kept == KeptStarts(HeaderBlob) IN
          /\ DOMAIN HeaderMap = {PairAt(HeaderBlob, a)[1] : a \in kept}
          /\ \A k \in DOMAIN HeaderMap :
                HeaderMap[k] =
                  PairAt(HeaderBlob, Max({a \in kept : PairAt(HeaderBlob, a)[1] = k}))[2]

\* A blob with a piece without '=' (dropped) and a value that contains '='.
C4_Witness ==
    /\ provider.some /\ provider.value.custom_headers.some
    /\ PieceStarts(HeaderBlob) # KeptStarts(HeaderBlob)
    /\ \E k \in DOMAIN HeaderMap : \E i \in 1..Len(HeaderMap[k]) : HeaderMap[k][i] = "="

---------------------------------------------------------------------------
(* C5 *)

\* An absent optional key is answered by its documented default and is not
\* counted as an error; the other entries of swallowed are.
SwallowedErrors == {e \in swallowed : e.error # "NotFound"}

\* Success means that no error arose except the soft ones: the adapter exists
\* only if the key was read and the client built, and a call succeeds only if
\* payload, URL, round trip, body and message were all good and the usage was
\* present or merely missing.
NoOtherErrorSwallowed ==
    /\ provider.some => (KeyPresent /\ construction.client_builds)
    /\ (construction.called /\ construction.returned = "Ok") => provider.some
    /\ \A c \in CallIds :
         (Done(c) /\ ResultOf(c).ok) =>
           /\ Encodable(calls[c].input.value)
           /\ ~MalformedUrlConfigured
           /\ Answered(c) /\ Received(ResponseOf(c))
           /\ ResponseOf(c).body.message # "undecodable"
           /\ ResponseOf(c).body.usage.state # "malformed"

\* C5 as stated: the only errors from_env and complete swallow are the
\* custom-header pairs without '=' and the missing usage; every other error
\* is returned.
C5_OnlyTwoSoftPaths ==
    /\ SwallowedErrors \subseteq
          { Swallowed("parse_custom_headers", "PairWithoutEquals"),
            Swallowed("get_usage", "UsageError") }
    /\ NoOtherErrorSwallowed

\* C5, amended: the errors swallowed are the custom-header pairs without
\* '=', the missing usage, and an error of reading an optional configuration
\* key (a SAMBANOVA_TIMEOUT that is no unsigned integer), which is replaced
\* by the key's default; every other error is returned.
C5_ThreeSoftPaths ==
    /\ SwallowedErrors \subseteq
          { Swallowed("parse_custom_headers", "PairWithoutEquals"),
            Swallowed("get_usage", "UsageError"),
            Swallowed("SAMBANOVA_TIMEOUT", "DeserializeError") }
    /\ NoOtherErrorSwallowed

\* All three kinds of swallowed error met on one adapter.
C5_Witness ==
    /\ Cardinality(SwallowedErrors) = 3
    /\ \E c \in CallIds : Done(c) /\ ResultOf(c).ok
    /\ \E c \in CallIds : Done(c) /\ ~ResultOf(c).ok

---------------------------------------------------------------------------
(* C6 *)

\* C6 as stated: a malformed host or base path does not fail from_env, and
\* each later complete call fails with ConfigError before any request is sent.
C6_ConfigErrorAtCall ==
    /\ (construction.called /\ KeyPresent /\ construction.client_builds) => provider.some
    /\ \A c \in CallIds :
         (MalformedUrlConfigured /\ calls[c].pc # "idle") =>
           /\ Done(c) /\ calls[c].posts = 0 /\ ~calls[c].request.some
           /\ ~ResultOf(c).ok
           /\ ResultOf(c).error.kind = "ConfigError"

\* C6, amended: a malformed host or base path does not fail from_env, and
\* each later complete call fails at call time, before any request is sent:
\* with RequestFailed when its payload was built, and with the error of
\* building the payload otherwise.
C6_RequestFailedAtCall ==
    /\ (construction.called /\ KeyPresent /\ construction.client_builds) => provider.some
    /\ \A c \in CallIds :
         (MalformedUrlConfigured /\ calls[c].pc # "idle") =>
           /\ Done(c) /\ calls[c].posts = 0 /\ ~calls[c].request.some
           /\ ~calls[c].response.some
           /\ ~ResultOf(c).ok
           /\ Encodable(calls[c].input.value) => ResultOf(c).error.kind = "RequestFailed"
           /\ ~Encodable(calls[c].input.value) =>
                 ResultOf(c).error = ProviderError("ExecutionError", "create_request")

\* An adapter built on a malformed host, and a call on it that failed with
\* RequestFailed.
C6_Witness ==
    /\ provider.some
    /\ config["SAMBANOVA_HOST"] = Some(MalformedHost)
    /\ \E c \in CallIds :
         /\ Done(c) /\ Encodable(calls[c].input.value)
         /\ ResultOf(c).error.kind = "RequestFailed" /\ calls[c].posts = 0

---------------------------------------------------------------------------
(* C7 *)

\* What complete returns for (input, response) on adapter p when no other
\* call runs, read off the adapter's fields, the input and the response.
ResultAlone(p, input, response) ==
    CASE ~Encodable(input) -> Err(ProviderError("ExecutionError", "create_request"))
      [] Encodable(input) /\ p.host = MalformedHost ->
            Err(ProviderError("RequestFailed", "Invalid base URL"))
      [] Encodable(input) /\ p.host # MalformedHost /\ p.base_path = MalformedBasePath ->
            Err(ProviderError("RequestFailed", "Failed to construct endpoint URL"))
      [] OTHER ->
            CASE response.value.kind = "transport_error" ->
                    Err(ProviderError("RequestFailed", "send"))
              [] response.value.kind = "http" /\ response.value.status # 200 ->
                    Err(ProviderError("RequestFailed", "status"))
              [] response.value.kind = "http" /\ response.value.status = 200
                   /\ ~response.value.body.json ->
                    Err(ProviderError("RequestFailed", "body"))
              [] OTHER ->
                    LET body == response.value.body IN
                    CASE body.message = "undecodable" ->
                            Err(ProviderError("ExecutionError", "response_to_message"))
                      [] body.message # "undecodable" /\ body.usage.state = "malformed" ->
                            Err(ProviderError("ExecutionError", "get_usage"))
                      [] OTHER ->
                            Ok(<< [role |-> "assistant", content |-> body.message],
                                  [ model |-> body.model,
                                    usage |-> IF body.usage.state = "absent"
                                              THEN ZeroUsage
                                              ELSE [ input_tokens |-> body.usage.tokens[1],
                                                     output_tokens |-> body.usage.tokens[2],
                                                     total_tokens |-> body.usage.tokens[3] ] ] >>)

\* C7: calls that overlap on one adapter do not wait on each other (a call
\* that was made can always run to its round trip, a call in its round trip
\* can always resume, whatever the other calls are doing), a call is
\* suspended only in its round trip, and what it returns is what it would
\* return alone for its own input and its own response.
C7_IndependentCalls ==
    \A c \in CallIds :
      /\ (provider.some /\ calls[c].pc = "idle" /\ (c > 1 => calls[c - 1].pc # "idle")) =>
            ENABLED CompleteSend(c)
      /\ calls[c].pc = "awaiting" =>
            /\ calls[c].posts = 1 /\ ~calls[c].response.some
            /\ ENABLED CompleteReceive(c)
      /\ Done(c) =>
            ResultOf(c) = ResultAlone(provider.value, calls[c].input.value, calls[c].response)

\* Two calls overlapped, and the later one returned first, with another
\* result than the earlier call will get.
C7_Witness ==
    \E c, d \in CallIds :
      /\ c < d
      /\ calls[c].pc = "awaiting" /\ Answered(d)
      /\ calls[c].input # calls[d].input
      /\ ResultOf(d).ok

---------------------------------------------------------------------------
(* C8 *)

\* C8: of two calls made one after the other on the same adapter with the
\* same (system, messages, tools), the second sends the request the first
\* sent, and when the transport answers both alike they return the same
\* result and leave the same trace.
C8_Idempotent ==
    \A c, d \in CallIds :
      (c < d /\ Done(c) /\ Done(d) /\ calls[c].input = calls[d].input) =>
        /\ calls[c].request = calls[d].request
        /\ calls[c].posts = calls[d].posts
        /\ calls[c].response = calls[d].response =>
              /\ calls[c].result = calls[d].result
              /\ calls[c].trace = calls[d].trace

\* Two successive calls with the same input and the same answer, both
\* successful.
C8_Witness ==
    \E c, d \in CallIds :
      /\ c < d /\ Answered(c) /\ Answered(d)
      /\ calls[c].input = calls[d].input
      /\ calls[c].response = calls[d].response
      /\ ResultOf(c).ok /\ ResultOf(d).ok /\ ResultOf(c) = ResultOf(d)

---------------------------------------------------------------------------
(* C9 *)

\* C9: get_model_config returns the model configuration the adapter was
\* constructed with (Meta-Llama-3.1-405B-Instruct for Default, the caller's
\* model for from_env), and no step taken once the adapter exists, a complete
\* call that succeeds or fails included, changes the model, host, base path,
\* API key, custom headers or client.
C9_ConfigurationFrame ==
    [][ /\ provider.some => provider' = provider
        /\ provider'.some =>
              /\ get_model_config' = ModelConfig_new(construction'.model_name)
              /\ construction'.via = "default" =>
                    get_model_config'.model_name = "Meta-Llama-3.1-405B-Instruct"
      ]_vars

\* An adapter from Default after one call that succeeded and one that failed.
C9_Witness ==
    /\ provider.some /\ construction.via = "default"
    /\ get_model_config.model_name = "Meta-Llama-3.1-405B-Instruct"
    /\ \E c \in CallIds : Answered(c) /\ ResultOf(c).ok
    /\ \E c \in CallIds : Answered(c) /\ ~ResultOf(c).ok

---------------------------------------------------------------------------
(* C10 *)

\* The decimal numeral of n.
RECURSIVE Decimal(_)
Decimal(n) ==
    IF n < 10 THEN <<Digits[n + 1]>> ELSE Decimal(n \div 10) \o <<Digits[(n % 10) + 1]>>

\* The default the metadata advertises for a configuration key.
Advertised(key) ==
    LET i == CHOOSE i \in 1..Len(metadata.config_keys) : metadata.config_keys[i].name = key
    IN  metadata.config_keys[i].default

\* The host, base path and custom headers come from the store when set, and
\* are the documented defaults, which are the advertised ones, otherwise.
StringParametersRead ==
    /\ Advertised("SAMBANOVA_HOST") = Some("https://api.sambanova.ai")
    /\ Advertised("SAMBANOVA_BASE_PATH") = Some("v1")
    /\ Advertised("SAMBANOVA_TIMEOUT") = Some(Decimal(600))
    /\ provider.some =>
         /\ provider.value.host =
               IF config["SAMBANOVA_HOST"].some THEN config["SAMBANOVA_HOST"].value
               ELSE "https://api.sambanova.ai"
         /\ provider.value.base_path =
               IF config["SAMBANOVA_BASE_PATH"].some THEN config["SAMBANOVA_BASE_PATH"].value
               ELSE "v1"
         /\ provider.value.custom_headers.some <=> config["SAMBANOVA_CUSTOM_HEADERS"].some

\* C10 as stated: with the API key present, from_env uses every optional
\* parameter's configured value when one is present and its documented
\* default otherwise (600 seconds for the timeout), the defaults being those
\* the metadata advertises.
C10_ConfiguredOrDefault ==
    /\ StringParametersRead
    /\ provider.some =>
         IF config["SAMBANOVA_TIMEOUT"].some
         THEN Decimal(provider.value.client.timeout) = config["SAMBANOVA_TIMEOUT"].value
         ELSE provider.value.client.timeout = 600

\* C10, amended: as stated, except that a SAMBANOVA_TIMEOUT which is present
\* but is no unsigned integer is answered by the default of 600 seconds too.
C10_ReadableOrDefault ==
    /\ StringParametersRead
    /\ provider.some =>
         LET raw == config["SAMBANOVA_TIMEOUT"] IN
         IF raw.some /\ raw.value # <<>> /\ \A i \in 1..Len(raw.value) : IsDigit(raw.value[i])
         THEN Decimal(provider.value.client.timeout) = raw.value
         ELSE provider.value.client.timeout = 600

\* An adapter built with the default host, a configured base path and the
\* default timeout in place of an unreadable one.
C10_Witness ==
    /\ provider.some
    /\ ~config["SAMBANOVA_HOST"].some /\ provider.value.host = "https://api.sambanova.ai"
    /\ config["SAMBANOVA_BASE_PATH"] = Some("v2") /\ provider.value.base_path = "v2"
    /\ config["SAMBANOVA_TIMEOUT"] = Some(<<"a", "b", "c">>)
    /\ provider.value.client.timeout = 600

====
